---- MODULE Spec2Model ----
(***************************************************************************)
(* The session pool of lncd (src/lncd/lncd.go): ConnectionPool.execute,    *)
(* the idle timer callback it arms, Connection.runLoop and                 *)
(* Connection.Close, run by concurrent goroutines.                         *)
(*                                                                         *)
(* One caller goroutine per element of Callers performs one call of        *)
(* execute; the calls are numbered in the order in which they are made.    *)
(* A Connection is identified by the caller whose call constructed it (a   *)
(* call constructs at most one), so Callers also is the set of Connection  *)
(* identities; 0 is the nil *Connection.                                   *)
(***************************************************************************)
EXTENDS Integers, Sequences, FiniteSets, TLC

\* ---------------------------------------------------------------- bounds
NumCallers == 2
NumPhrases == 2
\* Callback invocation counters saturate here (MaxCalls stands for "or more").
MaxCalls == 2
\* LNCD_LIMIT_ACTIVE_CONNECTIONS is read from the environment (default 210);
\* the model runs the pool with a small cap so that the cap is reached.
LNCD_LIMIT_ACTIVE_CONNECTIONS == 1

\* capacity of Connection.actions: make(chan Action, 1)
ChanCap == 1

Callers == 1..NumCallers
Nil == 0
Mailboxes == {"m1"}
Phrases == 1..NumPhrases

\* ConnectionInfo, restricted to the fields execute reads for the key.
ConnectionInfos == [Mailbox : Mailboxes, PairingPhrase : Phrases]

\* Action.method / Action.payload.  "GetInfo" stands for a method the registry
\* knows, "nope" for one it does not.  The pool is exercised with payloads the
\* method accepts: "[]" unmarshals into a []string.
Requests ==
    { [method |-> "checkPerms", payload |-> "[]"],
      [method |-> "GetInfo",    payload |-> "{}"],
      [method |-> "nope",       payload |-> "{}"] }

Registry == {"GetInfo"}

NoInfo == [Mailbox |-> "m1", PairingPhrase |-> 1]
NoReq == [method |-> "nope", payload |-> "{}"]

Free == <<"free", 0>>

VARIABLES
    pc,          \* pc[c]: where caller c is inside execute ("done": it has returned)
    info,        \* info[c]: the ConnectionInfo passed to execute
    req,         \* req[c]: the Action passed to execute
    conn,        \* conn[c]: try()'s local variable `connection` (Nil = nil)
    retry,       \* retry[c]: the value try() returned
    mutex,       \* pool.mutex: Free, <<"exec", c>> or <<"timer", s>>
    connections, \* pool.connections: a function from keys to Connections
    state,       \* state[s]: "none", "ready" (constructed) or "closed" (Close() ran)
    actions,     \* actions[s]: the buffer of the channel conn.actions
    lpc,         \* lpc[s]: runLoop of s: "off", "recv", "run" or "exit"
    inflight,    \* inflight[s]: actions received by runLoop and not yet completed
    timer,       \* timer[s]: timeoutTimer: "off", "armed", or its callback running
                 \* under the mutex: "closing" or "resetting" ("panic": it panicked)
    nResp,       \* nResp[c]: invocations of req[c].onResponse (saturating)
    nErr,        \* nErr[c]: invocations of req[c].onError (saturating)
    enq,         \* enq[s]: history of the callers whose action was sent on actions[s]
    deq,         \* deq[s]: history of the callers whose action runLoop received
    perm,        \* one "checkPerms" action in runLoop: the capability set of the
                 \* connection's PermissionManager, the payload, the position in
                 \* the branch, its locals `perms` and `valid`, and the callback
                 \* it invoked
    main         \* the goroutine of main(): pc "serving" (waiting for the shutdown
                 \* signal), "closing" (in its loop over pool.connections, with
                 \* the connections the map held when the loop began and those
                 \* it has closed), "exited", or "panic" / "fatal"

vars == <<pc, info, req, conn, retry, mutex, connections, state, actions, lpc,
          inflight, timer, nResp, nErr, enq, deq, main, perm>>

callerVars == <<pc, info, req, conn, retry>>
sessVars == <<state, actions, lpc, inflight, timer>>
cbVars == <<nResp, nErr>>
histVars == <<enq, deq>>

\* ------------------------------------------------------------- helpers

Min(a, b) == IF a < b THEN a ELSE b

\* ConnectionKey{info.Mailbox, info.PairingPhrase}
KeyOf(i) == <<i.Mailbox, i.PairingPhrase>>

\* mutant: the lookup never finds the installed connection
HasConnection_Miss(key) == FALSE

\* connection, ok := pool.connections[key]
HasConnection(key) == key \in DOMAIN connections

\* mutant: the cap test is off by one (> for >=)
CapReached_OffByOne == Cardinality(DOMAIN connections) > LNCD_LIMIT_ACTIVE_CONNECTIONS

\* len(pool.connections) >= LNCD_LIMIT_ACTIVE_CONNECTIONS
CapReached == Cardinality(DOMAIN connections) >= LNCD_LIMIT_ACTIVE_CONNECTIONS

\* mutant: Lock() does not exclude (the lookup, the cap test and the insertion
\* of one call interleave with those of another)
CanLock_NoExclusion == TRUE

\* pool.mutex.Lock() returns only when no goroutine holds the mutex
CanLock == mutex = Free

\* len(connection.actions) == 0
QueueEmpty(s) == Len(actions[s]) = 0

\* a send on conn.actions blocks while the buffer is full
CanSend(s) == Len(actions[s]) < ChanCap

\* req.onError(err) / req.onResponse(info, result)
OnError(c) == nErr' = [nErr EXCEPT ![c] = Min(@ + 1, MaxCalls)]
OnResponse(c) == nResp' = [nResp EXCEPT ![c] = Min(@ + 1, MaxCalls)]

\* pool.connections[key] = connection
MapPut(m, key, s) == [k \in DOMAIN m \cup {key} |-> IF k = key THEN s ELSE m[k]]
\* mutant: the closed connection is not removed from the map
MapDelete_Noop(m, key) == m

\* delete(pool.connections, key)
MapDelete(m, key) == [k \in DOMAIN m \ {key} |-> m[k]]

\* ------------------------------------------------- checkPerms: the data
\* A permission string is a sequence of tokens, ":" being the separator.
MaxPerms == 2

PermStrings ==
    { <<"info", ":", "read">>, <<"offchain", ":", "send">>,
      <<"onchain", ":", "read">>, <<"info">>, <<>> }

\* the capability sets a macaroon may carry: sets of <<entity, action>>
Capabilities ==
    SUBSET { <<"info", "read">>, <<"offchain", "*">>, <<"*", "read">>, <<"*", "*">> }

\* the elements of a JSON array: strings, and a number (which is no string)
JsonElems == { <<"str", p>> : p \in PermStrings } \cup { <<"num", 1>> }

SeqsUpTo(S, n) == UNION { [1..k -> S] : k \in 0..n }

\* req.payload: text that is no JSON, the JSON value null, or a JSON array
Payloads ==
    { [kind |-> "malformed", elems |-> <<>>], [kind |-> "null", elems |-> <<>>] }
    \cup { [kind |-> "array", elems |-> es] : es \in SeqsUpTo(JsonElems, MaxPerms) }

\* json.Unmarshal([]byte(req.payload), &perms) with perms a []string
Unmarshal(payload) ==
    IF payload.kind = "malformed" THEN [err |-> TRUE, perms |-> <<>>]
    ELSE IF payload.kind = "null" THEN [err |-> FALSE, perms |-> <<>>]
    ELSE IF \E i \in DOMAIN payload.elems : payload.elems[i][1] # "str"
         THEN [err |-> TRUE, perms |-> <<>>]
         ELSE [err |-> FALSE,
               perms |-> [i \in DOMAIN payload.elems |-> payload.elems[i][2]]]

\* PermissionManager.check(permission): the string must read entity:action;
\* it is allowed when the capability set holds the pair, or a pair with "*"
\* in place of the entity, of the action, or of both.
Check(caps, p) ==
    IF Len(p) = 3 /\ p[2] = ":" /\ p[1] # ":" /\ p[3] # ":"
    THEN [err |-> FALSE,
          allowed |-> \/ <<p[1], p[3]>> \in caps
                      \/ <<p[1], "*">> \in caps
                      \/ <<"*", p[3]>> \in caps
                      \/ <<"*", "*">> \in caps]
    ELSE [err |-> TRUE, allowed |-> FALSE]

\* mutant: the entry stored is the negation of what check returned
Valid_Negated(r) == IF r.err THEN FALSE ELSE ~r.allowed

\* the entry runLoop stores in valid[i] for check's result (allowed, err)
Valid(r) == IF r.err THEN FALSE ELSE r.allowed

\* json.Marshal(valid) with valid a []bool: it cannot fail
Marshal(valid) == [i \in DOMAIN valid |-> IF valid[i] THEN "true" ELSE "false"]

\* no "checkPerms" action under observation
NoCheck ==
    [pc |-> "off", caps |-> {}, payload |-> [kind |-> "null", elems |-> <<>>],
     perms |-> <<>>, valid |-> <<>>, i |-> 1, out |-> <<"none">>]

\* mutant: the connection is installed but its loop is never started
RunLoop_NotStarted(s) == UNCHANGED lpc

\* go connection.runLoop()
RunLoop(s) == lpc' = [lpc EXCEPT ![s] = "recv"]

\* ---------------------------------------------------------------- Init

PoolInit ==
    /\ pc = [c \in Callers |-> "idle"]
    /\ info = [c \in Callers |-> NoInfo]
    /\ req = [c \in Callers |-> NoReq]
    /\ conn = [c \in Callers |-> Nil]
    /\ retry = [c \in Callers |-> TRUE]
    /\ mutex = Free
    /\ connections = <<>>
    /\ state = [s \in Callers |-> "none"]
    /\ actions = [s \in Callers |-> <<>>]
    /\ lpc = [s \in Callers |-> "off"]
    /\ inflight = [s \in Callers |-> {}]
    /\ timer = [s \in Callers |-> "off"]
    /\ nResp = [c \in Callers |-> 0]
    /\ nErr = [c \in Callers |-> 0]
    /\ enq = [s \in Callers |-> <<>>]
    /\ deq = [s \in Callers |-> <<>>]
    /\ main = [pc |-> "serving", start |-> {}, seen |-> {}]

Init == PoolInit /\ perm = NoCheck

\* ------------------------------------------------- ConnectionPool.execute

\* pool.execute(info, req) is called: retry := true, enter the loop.
Execute(c) ==
    /\ pc[c] = "idle"
    \* callers are interchangeable: number them by the order of their calls
    /\ \A d \in Callers : d < c => pc[d] # "idle"
    /\ \E i \in ConnectionInfos, r \in Requests :
          /\ info' = [info EXCEPT ![c] = i]
          /\ req' = [req EXCEPT ![c] = r]
    /\ retry' = [retry EXCEPT ![c] = TRUE]
    /\ pc' = [pc EXCEPT ![c] = "lock"]
    /\ UNCHANGED <<conn, mutex, connections>>
    /\ UNCHANGED <<sessVars, cbVars, histVars>>
    /\ UNCHANGED main
    /\ UNCHANGED perm

\* pool.mutex.Lock() succeeds and try() runs from the map lookup up to the
\* call of NewConnection (nothing else reads or writes the map meanwhile).
Try(c) ==
    /\ pc[c] = "lock"
    /\ CanLock
    /\ mutex' = <<"exec", c>>
    /\ IF HasConnection(KeyOf(info[c]))
       THEN \* reuse the existing connection
            /\ conn' = [conn EXCEPT ![c] = connections[KeyOf(info[c])]]
            /\ pc' = [pc EXCEPT ![c] = "send"]
            /\ UNCHANGED <<retry, nErr>>
       ELSE IF CapReached
       THEN \* req.onError("too many active connections"); return true
            /\ OnError(c)
            /\ retry' = [retry EXCEPT ![c] = TRUE]
            /\ pc' = [pc EXCEPT ![c] = "unlock"]
            /\ UNCHANGED conn
       ELSE /\ pc' = [pc EXCEPT ![c] = "handshake"]
            /\ UNCHANGED <<conn, retry, nErr>>
    /\ UNCHANGED <<info, req, connections, nResp>>
    /\ UNCHANGED <<sessVars, histVars>>
    /\ UNCHANGED main
    /\ UNCHANGED perm

\* connection, err = NewConnection(pool, info) returns, and the if/else on err:
\* on error onError is called and `connection` is nil; otherwise the idle
\* timer is armed, the connection is installed and runLoop is started.
NewConnection(c) ==
    /\ pc[c] = "handshake"
    /\ \E ok \in BOOLEAN :
          IF ok
          THEN /\ conn' = [conn EXCEPT ![c] = c]
               /\ state' = [state EXCEPT ![c] = "ready"]
               /\ timer' = [timer EXCEPT ![c] = "armed"]
               /\ connections' = MapPut(connections, KeyOf(info[c]), c)
               /\ RunLoop(c)
               /\ UNCHANGED nErr
          ELSE /\ conn' = [conn EXCEPT ![c] = Nil]
               /\ OnError(c)
               /\ UNCHANGED <<state, timer, connections, lpc>>
    /\ pc' = [pc EXCEPT ![c] = "send"]
    /\ UNCHANGED <<info, req, retry, mutex, actions, inflight, nResp>>
    /\ UNCHANGED histVars
    /\ UNCHANGED main
    /\ UNCHANGED perm

\* connection.actions <- req; return false.  A nil `connection` makes the
\* field access panic, a closed channel makes the send panic; in both cases
\* the goroutine leaves execute by unwinding, with pool.mutex still locked.
Send(c) ==
    /\ pc[c] = "send"
    /\ IF conn[c] = Nil \/ state[conn[c]] = "closed"
       THEN /\ pc' = [pc EXCEPT ![c] = "panic"]
            /\ UNCHANGED <<retry, actions, enq>>
       ELSE /\ CanSend(conn[c])
            /\ actions' = [actions EXCEPT ![conn[c]] = Append(@, c)]
            /\ enq' = [enq EXCEPT ![conn[c]] = Append(@, c)]
            /\ retry' = [retry EXCEPT ![c] = FALSE]
            /\ pc' = [pc EXCEPT ![c] = "unlock"]
    /\ UNCHANGED <<info, req, conn, mutex, connections, deq>>
    /\ UNCHANGED <<state, lpc, inflight, timer, cbVars>>
    /\ UNCHANGED main
    /\ UNCHANGED perm

\* pool.mutex.Unlock(); then either leave the loop (execute returns, its
\* locals die) or time.Sleep(1 * time.Second) and go round again.
Unlock(c) ==
    /\ pc[c] = "unlock"
    /\ mutex' = Free
    /\ pc' = [pc EXCEPT ![c] = IF retry[c] THEN "lock" ELSE "done"]
    /\ conn' = [conn EXCEPT ![c] = Nil]
    /\ UNCHANGED <<info, req, retry, connections>>
    /\ UNCHANGED <<sessVars, cbVars, histVars>>
    /\ UNCHANGED main
    /\ UNCHANGED perm

\* ----------------------------------------------------- Connection.runLoop

\* mutant: the loop receives the next action without waiting for the
\* current one to complete (as if each action ran in its own goroutine)
LoopReady_Concurrent(s) == lpc[s] \in {"recv", "run"}

\* runLoop is blocked in `for req := range conn.actions`
LoopReady(s) == lpc[s] = "recv"

\* `range conn.actions` yields the next action, or ends when the channel is
\* closed and drained.
LoopRecv(s) ==
    /\ LoopReady(s)
    /\ IF ~QueueEmpty(s)
       THEN /\ actions' = [actions EXCEPT ![s] = Tail(@)]
            /\ inflight' = [inflight EXCEPT ![s] = @ \cup {Head(actions[s])}]
            /\ deq' = [deq EXCEPT ![s] = Append(@, Head(actions[s]))]
            /\ lpc' = [lpc EXCEPT ![s] = "run"]
       ELSE /\ state[s] = "closed"
            /\ lpc' = [lpc EXCEPT ![s] = "exit"]
            /\ UNCHANGED <<actions, inflight, deq>>
    /\ UNCHANGED <<callerVars, mutex, connections, state, timer, cbVars, enq>>
    /\ UNCHANGED main
    /\ UNCHANGED perm

\* mutant: a method the registry does not hold is reported as an error
NotFound_Error(a) == OnError(a) /\ UNCHANGED nResp

\* `methodFunc, ok = conn.registry[req.method]` with ok false: nothing is done
NotFound(a) == UNCHANGED <<nResp, nErr>>

\* The body of the loop for one action.  A registry method is assumed to call
\* its callback once, with a result or with an error, before it returns.
LoopDispatch(s) ==
    /\ lpc[s] = "run"
    /\ \E a \in inflight[s] :
          /\ inflight' = [inflight EXCEPT ![s] = @ \ {a}]
          /\ IF req[a].method = "checkPerms"
             THEN IF req[a].payload = "[]"
                  THEN OnResponse(a) /\ UNCHANGED nErr
                  ELSE OnError(a) /\ UNCHANGED nResp
             ELSE IF req[a].method \in Registry
             THEN \E err \in BOOLEAN :
                     IF err THEN OnError(a) /\ UNCHANGED nResp
                            ELSE OnResponse(a) /\ UNCHANGED nErr
             ELSE NotFound(a)
    /\ lpc' = [lpc EXCEPT ![s] = "recv"]
    /\ UNCHANGED <<callerVars, mutex, connections, state, actions, timer, histVars>>
    /\ UNCHANGED main
    /\ UNCHANGED perm

\* ------------------------------------------------- idle timer callback

\* mutant: eviction forgets to close the connection it removes
Close_Noop(s) == UNCHANGED state

\* Connection.Close(): close(conn.actions); conn.grpcClient.Close()
Close(s) == state' = [state EXCEPT ![s] = "closed"]

\* The timer fires: pool.mutex.Lock(), then the test on len(connection.actions):
\* connection.Close() when it is 0, otherwise the branch that resets the timer.
TimerFire(s) ==
    /\ timer[s] = "armed"
    /\ CanLock
    /\ mutex' = <<"timer", s>>
    /\ IF QueueEmpty(s)
       THEN IF state[s] = "closed"
            THEN \* close of a closed channel: the callback's goroutine panics
                 UNCHANGED state /\ timer' = [timer EXCEPT ![s] = "panic"]
            ELSE Close(s) /\ timer' = [timer EXCEPT ![s] = "closing"]
       ELSE UNCHANGED state /\ timer' = [timer EXCEPT ![s] = "resetting"]
    /\ UNCHANGED <<callerVars, connections, actions, lpc, inflight, cbVars, histVars>>
    /\ UNCHANGED main
    /\ UNCHANGED perm

\* The rest of the callback: delete(pool.connections, key) after Close(), or
\* timeoutTimer.Reset(LNCD_TIMEOUT); then pool.mutex.Unlock().
TimerDone(s) ==
    /\ timer[s] \in {"closing", "resetting"}
    /\ IF timer[s] = "closing"
       THEN /\ connections' = MapDelete(connections, KeyOf(info[s]))
            /\ timer' = [timer EXCEPT ![s] = "off"]
       ELSE /\ timer' = [timer EXCEPT ![s] = "armed"]
            /\ UNCHANGED connections
    /\ mutex' = Free
    /\ UNCHANGED <<callerVars, state, actions, lpc, inflight, cbVars, histVars>>
    /\ UNCHANGED main
    /\ UNCHANGED perm

\* ---------------------------------------------------------------- Next

Next ==
    \/ \E c \in Callers : Execute(c)
    \/ \E c \in Callers : Try(c)
    \/ \E c \in Callers : NewConnection(c)
    \/ \E c \in Callers : Send(c)
    \/ \E c \in Callers : Unlock(c)
    \/ \E s \in Callers : LoopRecv(s)
    \/ \E s \in Callers : LoopDispatch(s)
    \/ \E s \in Callers : TimerFire(s)
    \/ \E s \in Callers : TimerDone(s)

Spec == Init /\ [][Next]_vars

\* Fair scheduling: every goroutine that can take a step eventually takes
\* it; sync.Mutex hands the lock to a goroutine that keeps waiting for it
\* (starvation mode), hence strong fairness for the two Lock() sites.
FairSpec ==
    /\ Spec
    /\ \A c \in Callers :
          /\ SF_vars(Try(c))
          /\ WF_vars(NewConnection(c) \/ Send(c) \/ Unlock(c))
    /\ \A s \in Callers :
          /\ WF_vars(LoopRecv(s) \/ LoopDispatch(s))
          /\ SF_vars(TimerFire(s))
          /\ WF_vars(TimerDone(s))

\* ------------------------------------------------------------ rpcHandler
\* The daemon's caller of execute.  Each request makes an unbuffered channel
\* waitResponse and passes callbacks that send on it (and then close it); the
\* handler receives from it only after pool.execute has returned.  A send on
\* an unbuffered channel blocks until the receiver is there, so:
\*   - a callback that execute itself invokes blocks the handler's own
\*     goroutine inside execute (pc "blocked"): the receive is never reached;
\*   - a callback invoked by runLoop completes once the handler is at
\*     `<-waitResponse` (pc "done"), and the handler then writes the response
\*     (pc "responded").

\* pool.mutex.Lock() and try() up to NewConnection, with rpcHandler's onError.
RpcTry(c) ==
    /\ pc[c] = "lock"
    /\ CanLock
    /\ mutex' = <<"exec", c>>
    /\ IF HasConnection(KeyOf(info[c]))
       THEN /\ conn' = [conn EXCEPT ![c] = connections[KeyOf(info[c])]]
            /\ pc' = [pc EXCEPT ![c] = "send"]
            /\ UNCHANGED nErr
       ELSE IF CapReached
       THEN \* req.onError(...): waitResponse <- RpcResponse{...} blocks
            /\ OnError(c)
            /\ pc' = [pc EXCEPT ![c] = "blocked"]
            /\ UNCHANGED conn
       ELSE /\ pc' = [pc EXCEPT ![c] = "handshake"]
            /\ UNCHANGED <<conn, nErr>>
    /\ UNCHANGED <<info, req, retry, connections, nResp>>
    /\ UNCHANGED <<sessVars, histVars>>
    /\ UNCHANGED main
    /\ UNCHANGED perm

\* NewConnection returns inside a call made by rpcHandler.
RpcNewConnection(c) ==
    /\ pc[c] = "handshake"
    /\ \E ok \in BOOLEAN :
          IF ok
          THEN /\ conn' = [conn EXCEPT ![c] = c]
               /\ state' = [state EXCEPT ![c] = "ready"]
               /\ timer' = [timer EXCEPT ![c] = "armed"]
               /\ connections' = MapPut(connections, KeyOf(info[c]), c)
               /\ RunLoop(c)
               /\ pc' = [pc EXCEPT ![c] = "send"]
               /\ UNCHANGED nErr
          ELSE \* req.onError(err): waitResponse <- RpcResponse{...} blocks
               /\ conn' = [conn EXCEPT ![c] = Nil]
               /\ OnError(c)
               /\ pc' = [pc EXCEPT ![c] = "blocked"]
               /\ UNCHANGED <<state, timer, connections, lpc>>
    /\ UNCHANGED <<info, req, retry, mutex, actions, inflight, nResp>>
    /\ UNCHANGED histVars
    /\ UNCHANGED main
    /\ UNCHANGED perm

\* The body of runLoop for one action of rpcHandler: the callback's send
\* meets the handler's receive, the handler answers the request.
RpcDispatch(s) ==
    /\ lpc[s] = "run"
    /\ \E a \in inflight[s] :
          /\ inflight' = [inflight EXCEPT ![s] = @ \ {a}]
          /\ IF req[a].method = "checkPerms" \/ req[a].method \in Registry
             THEN /\ pc[a] = "done"
                  /\ pc' = [pc EXCEPT ![a] = "responded"]
                  /\ IF req[a].method = "checkPerms"
                     THEN IF req[a].payload = "[]"
                          THEN OnResponse(a) /\ UNCHANGED nErr
                          ELSE OnError(a) /\ UNCHANGED nResp
                     ELSE \E err \in BOOLEAN :
                             IF err THEN OnError(a) /\ UNCHANGED nResp
                                    ELSE OnResponse(a) /\ UNCHANGED nErr
             ELSE UNCHANGED <<pc, nResp, nErr>>
    /\ lpc' = [lpc EXCEPT ![s] = "recv"]
    /\ UNCHANGED <<info, req, conn, retry>>
    /\ UNCHANGED <<mutex, connections, state, actions, timer, histVars>>
    /\ UNCHANGED main
    /\ UNCHANGED perm

RpcNext ==
    \/ \E c \in Callers : Execute(c)
    \/ \E c \in Callers : RpcTry(c)
    \/ \E c \in Callers : RpcNewConnection(c)
    \/ \E c \in Callers : Send(c)
    \/ \E c \in Callers : Unlock(c)
    \/ \E s \in Callers : LoopRecv(s)
    \/ \E s \in Callers : RpcDispatch(s)
    \/ \E s \in Callers : TimerFire(s)
    \/ \E s \in Callers : TimerDone(s)

RpcSpec == Init /\ [][RpcNext]_vars

FairRpcSpec ==
    /\ RpcSpec
    /\ \A c \in Callers :
          /\ SF_vars(RpcTry(c))
          /\ WF_vars(RpcNewConnection(c) \/ Send(c) \/ Unlock(c))
    /\ \A s \in Callers :
          /\ WF_vars(LoopRecv(s) \/ RpcDispatch(s))
          /\ SF_vars(TimerFire(s))
          /\ WF_vars(TimerDone(s))

\* ------------------------------------------------------- main: shutdown
\* main() waits for the shutdown signal, then ranges over pool.connections and
\* calls Close() on each connection, without pool.mutex, without deleting the
\* key and without stopping the timers; then it returns and the process
\* exits.  Reading the map while another goroutine writes it is a data race:
\* the loop may produce or skip an entry inserted after it began, or the
\* runtime may stop the process ("concurrent map iteration and map write").

\* the process is running: main has not returned, and no goroutine other than
\* an HTTP handler (whose panic the server recovers) has panicked
Alive ==
    /\ main.pc \in {"serving", "closing"}
    /\ \A s \in Callers : timer[s] # "panic"

\* <-shutdownInterceptor.ShutdownChannel() returns; the range loop begins
ShutdownBegin ==
    /\ main.pc = "serving"
    /\ main' = [pc |-> "closing",
                start |-> {connections[k] : k \in DOMAIN connections},
                seen |-> {}]
    /\ UNCHANGED <<callerVars, mutex, connections, sessVars, cbVars, histVars>>
    /\ UNCHANGED perm

\* one iteration of the loop: conn.Close().  Closing a connection that the
\* idle timer has already closed panics (close of a closed channel).
ShutdownClose(s) ==
    /\ main.pc = "closing"
    /\ s \notin main.seen
    /\ \E k \in DOMAIN connections : connections[k] = s
    /\ IF state[s] = "closed"
       THEN /\ main' = [main EXCEPT !.pc = "panic"]
            /\ UNCHANGED state
       ELSE /\ main' = [main EXCEPT !.seen = @ \cup {s}]
            /\ Close(s)
    /\ UNCHANGED <<callerVars, mutex, connections, actions, lpc, inflight, timer>>
    /\ UNCHANGED <<cbVars, histVars>>
    /\ UNCHANGED perm

\* the runtime detects the map being written during the iteration
ShutdownRace ==
    /\ main.pc = "closing"
    /\ \/ \E c \in Callers : pc[c] = "handshake"
       \/ \E s \in Callers : timer[s] = "closing"
    /\ main' = [main EXCEPT !.pc = "fatal"]
    /\ UNCHANGED <<callerVars, mutex, connections, sessVars, cbVars, histVars>>
    /\ UNCHANGED perm

\* the loop ends (every entry it must produce has been produced); main returns
ShutdownExit ==
    /\ main.pc = "closing"
    /\ \A k \in DOMAIN connections :
          connections[k] \in main.start => connections[k] \in main.seen
    /\ main' = [main EXCEPT !.pc = "exited"]
    /\ UNCHANGED <<callerVars, mutex, connections, sessVars, cbVars, histVars>>
    /\ UNCHANGED perm

ShutdownNext ==
    \/ \E c \in Callers : Alive /\ Execute(c)
    \/ \E c \in Callers : Alive /\ Try(c)
    \/ \E c \in Callers : Alive /\ NewConnection(c)
    \/ \E c \in Callers : Alive /\ Send(c)
    \/ \E c \in Callers : Alive /\ Unlock(c)
    \/ \E s \in Callers : Alive /\ LoopRecv(s)
    \/ \E s \in Callers : Alive /\ LoopDispatch(s)
    \/ \E s \in Callers : Alive /\ TimerFire(s)
    \/ \E s \in Callers : Alive /\ TimerDone(s)
    \/ Alive /\ ShutdownBegin
    \/ \E s \in Callers : Alive /\ ShutdownClose(s)
    \/ Alive /\ ShutdownRace
    \/ Alive /\ ShutdownExit

ShutdownSpec == Init /\ [][ShutdownNext]_vars

\* ----------------------------------------- runLoop: the checkPerms branch
\* One "checkPerms" action followed through the branch of runLoop, for every
\* capability set and every payload.

PermsInit ==
    /\ PoolInit
    /\ \E caps \in Capabilities, payload \in Payloads :
          perm = [NoCheck EXCEPT !.pc = "unmarshal", !.caps = caps,
                                 !.payload = payload]

\* perms := []string{}; json.Unmarshal; on error req.onError(err), otherwise
\* valid := make([]bool, len(perms))
PermsUnmarshal ==
    /\ perm.pc = "unmarshal"
    /\ LET r == Unmarshal(perm.payload)
       IN IF r.err
          THEN perm' = [perm EXCEPT !.pc = "done", !.out = <<"onError">>]
          ELSE perm' = [perm EXCEPT !.pc = "range", !.perms = r.perms,
                                    !.valid = [i \in DOMAIN r.perms |-> FALSE]]
    /\ UNCHANGED <<callerVars, mutex, connections, sessVars, cbVars, histVars, main>>

\* one iteration of `for i, perm := range perms`
PermsCheck ==
    /\ perm.pc = "range"
    /\ perm.i <= Len(perm.perms)
    /\ perm' = [perm EXCEPT
                  !.valid[perm.i] = Valid(Check(perm.caps, perm.perms[perm.i])),
                  !.i = @ + 1]
    /\ UNCHANGED <<callerVars, mutex, connections, sessVars, cbVars, histVars, main>>

\* after the loop: json.Marshal(valid), then req.onResponse(connInfo, result)
PermsMarshal ==
    /\ perm.pc = "range"
    /\ perm.i > Len(perm.perms)
    /\ perm' = [perm EXCEPT !.pc = "done",
                            !.out = <<"onResponse", Marshal(perm.valid)>>]
    /\ UNCHANGED <<callerVars, mutex, connections, sessVars, cbVars, histVars, main>>

PermsNext == PermsUnmarshal \/ PermsCheck \/ PermsMarshal

PermsSpec == PermsInit /\ [][PermsNext]_vars

TypeOK ==
    /\ pc \in [Callers -> {"idle", "lock", "handshake", "send", "unlock",
                           "done", "panic", "blocked", "responded"}]
    /\ conn \in [Callers -> Callers \cup {Nil}]
    /\ state \in [Callers -> {"none", "ready", "closed"}]
    /\ lpc \in [Callers -> {"off", "recv", "run", "exit"}]
    /\ timer \in [Callers -> {"off", "armed", "closing", "resetting", "panic"}]
    /\ \A s \in Callers : Len(actions[s]) <= ChanCap
    /\ perm.pc \in {"off", "unmarshal", "range", "done"}
    /\ perm.caps \in Capabilities
    /\ Len(perm.valid) = Len(perm.perms) /\ Len(perm.perms) <= MaxPerms

\* ------------------------------------------------------------- properties

Known(c) == req[c].method = "checkPerms" \/ req[c].method \in Registry
Called(c) == pc[c] # "idle"
Calls(c) == nResp[c] + nErr[c]
Installed(s) == \E k \in DOMAIN connections : connections[k] = s
IsPrefix(p, q) == Len(p) <= Len(q) /\ SubSeq(q, 1, Len(p)) = p
KeyAbsent(c) == KeyOf(info[c]) \notin DOMAIN connections
AtCap == Cardinality(DOMAIN connections) >= LNCD_LIMIT_ACTIVE_CONNECTIONS

\* C1: for every action passed to execute, onResponse and onError are invoked
\* at most once in total.
C1_AtMostOneCallback == \A c \in Callers : Calls(c) <= 1

\* C2: under fair scheduling, every action passed to execute whose method is
\* "checkPerms" or registry-known eventually has onResponse or onError invoked.
C2_EventuallyCalledBack ==
    \A c \in Callers : (Called(c) /\ Known(c)) ~> (Calls(c) >= 1)

\* C3: in every reachable state the pool's map holds at most
\* LNCD_LIMIT_ACTIVE_CONNECTIONS connections.
C3_CapRespected == Cardinality(DOMAIN connections) <= LNCD_LIMIT_ACTIVE_CONNECTIONS

\* C3 witness: the map is full and a call for an absent key has been turned away.
C3_Witness ==
    \E c \in Callers :
       /\ Cardinality(DOMAIN connections) = LNCD_LIMIT_ACTIVE_CONNECTIONS
       /\ KeyAbsent(c)
       /\ pc[c] = "unlock" /\ retry[c]

\* C4: at every instant at most one live (constructed, not closed) connection
\* exists per key, and an installed live connection is never replaced in the
\* map by another one.
C4_OneLiveSessionPerKey ==
    /\ [](\A s, t \in Callers :
            (state[s] = "ready" /\ state[t] = "ready"
               /\ KeyOf(info[s]) = KeyOf(info[t])) => s = t)
    /\ [][\A k \in DOMAIN connections :
            (state[connections[k]] = "ready" /\ k \in DOMAIN connections')
               => connections'[k] = connections[k]]_vars

\* C4 witness: two calls with the same key have been served by one live
\* connection.
C4_Witness ==
    \E s, c \in Callers :
       /\ c # s
       /\ KeyOf(info[c]) = KeyOf(info[s])
       /\ state[s] = "ready"
       /\ pc[c] = "done" /\ pc[s] = "done"
       /\ enq[s] = <<s, c>>

C6_ExecuteReturns ==
    /\ [](\A c \in Callers :
            pc[c] = "done" =>
               ((\E s \in Callers : \E i \in 1..Len(enq[s]) : enq[s][i] = c)
                  \/ nErr[c] >= 1))
    /\ [][\A c \in Callers :
            (pc[c] = "unlock" /\ retry[c] /\ pc'[c] # pc[c]) => pc'[c] = "done"]_vars
    /\ \A c \in Callers : Called(c) ~> (pc[c] = "done")

\* C7: a call whose connection construction failed does not leave execute by
\* a panic: it returns normally (with the mutex released).
C7_FailedConstructionReturns == \A c \in Callers : pc[c] # "panic"

\* C8: the loop of a connection receives actions in the order in which
\* execute sent them, and at most one action of a connection is in flight.
C8_FifoOneInFlight ==
    \A s \in Callers :
       /\ IsPrefix(deq[s], enq[s])
       /\ Cardinality(inflight[s]) <= 1

\* C8 witness: one action of a connection is in flight while the next one is
\* queued behind it.
C8_Witness ==
    \E s \in Callers :
       /\ Len(enq[s]) = 2 /\ Len(deq[s]) = 1
       /\ inflight[s] = {enq[s][1]}
       /\ actions[s] = <<enq[s][2]>>

\* C9: when the idle timer closes a connection, the connection has no queued
\* action and no action in flight.
C9_IdleCloseOnlyWithoutWork ==
    [][\A s \in Callers :
         (state[s] = "ready" /\ state'[s] = "closed")
            => (actions[s] = <<>> /\ inflight[s] = {})]_vars

\* C10: an action is only ever queued on an open connection installed in the
\* map; no send hits a closed channel; no action is left in a closed
\* connection, and a loop that has exited has received everything sent to it.
C10_EnqueueNeverLost ==
    /\ \A c \in Callers : pc[c] = "panic" => conn[c] = Nil
    /\ \A s \in Callers :
          /\ actions[s] # <<>> => (state[s] = "ready" /\ Installed(s))
          /\ state[s] = "closed" => actions[s] = <<>>
          /\ lpc[s] = "exit" => deq[s] = enq[s]

\* C10 witness: a connection was evicted and closed, and a call with the same
\* key has been queued on a freshly constructed connection.
C10_Witness ==
    \E s, t \in Callers :
       /\ s # t
       /\ KeyOf(info[s]) = KeyOf(info[t])
       /\ state[s] = "closed" /\ ~Installed(s)
       /\ state[t] = "ready" /\ Installed(t)
       /\ actions[t] = <<t>>

\* caller c is on the reuse path of try(): the lookup found a connection
\* that another call constructed
Reusing(c) == pc[c] \in {"send", "unlock"} /\ conn[c] # Nil /\ conn[c] # c

\* C11: a call whose key has a connection in the map goes on to send its
\* action on that connection without a handshake, and while it does so the
\* map, the connections' open/closed state and the idle timers stay as they
\* are; the send appends the action to that connection's queue.
C11_ReuseLeavesPoolAlone ==
    [][\A c \in Callers :
         /\ (pc[c] = "lock" /\ pc'[c] # "lock" /\ ~KeyAbsent(c))
               => /\ pc'[c] = "send"
                  /\ conn'[c] = connections[KeyOf(info[c])]
                  /\ connections' = connections
                  /\ state' = state /\ timer' = timer
                  /\ nErr' = nErr /\ nResp' = nResp
         /\ Reusing(c)
               => /\ connections' = connections
                  /\ state' = state /\ timer' = timer
                  /\ pc'[c] \in {"send", "unlock", "lock", "done"}
         /\ (Reusing(c) /\ pc[c] = "send" /\ pc'[c] # "send")
               => /\ pc'[c] = "unlock" /\ ~retry'[c]
                  /\ actions'[conn[c]] = Append(actions[conn[c]], c)]_vars

\* C11 witness: a call has sent its action on a connection built by an
\* earlier call, whose timer is still armed; the call built nothing.
C11_Witness ==
    \E c \in Callers :
       /\ Reusing(c) /\ pc[c] = "unlock"
       /\ state[c] = "none"
       /\ actions[conn[c]] = <<c>>
       /\ timer[conn[c]] = "armed"
       /\ connections[KeyOf(info[c])] = conn[c]

\* the idle timer callback of s has closed s, removed it and returned
Evicted(s) == state[s] = "closed" /\ timer[s] = "off"

\* C12: an evicted connection is not in the map and holds no action, a closed
\* connection stays closed and is sent no further action, and a call that
\* installs a connection installs one that was never constructed before.
C12_NoResurrection ==
    /\ [](\A s \in Callers : Evicted(s) => (~Installed(s) /\ actions[s] = <<>>))
    /\ [][\A s \in Callers :
            /\ state[s] = "closed" => (state'[s] = "closed" /\ enq'[s] = enq[s])
            /\ (\E k \in DOMAIN connections' :
                   connections'[k] = s
                     /\ (k \notin DOMAIN connections \/ connections[k] # s))
                  => state[s] = "none"]_vars

\* C12 witness: after the eviction of a connection, a call with the same key
\* has installed a fresh one.
C12_Witness ==
    \E s, t \in Callers :
       /\ s # t
       /\ Evicted(s)
       /\ KeyOf(info[s]) = KeyOf(info[t])
       /\ state[t] = "ready"
       /\ connections[KeyOf(info[t])] = t
       /\ pc[t] = "done"

\* C13: when the idle timer fires on an empty queue the connection is closed
\* and removed from the map; otherwise it stays installed and open and the
\* timer is armed again; and under fair scheduling every constructed
\* connection is eventually closed and removed.
C13_IdleTimerEvicts ==
    /\ [][\A s \in Callers :
            /\ (timer[s] = "armed" /\ timer'[s] # "armed")
                  => IF actions[s] = <<>>
                     THEN timer'[s] = "closing" /\ state'[s] = "closed"
                     ELSE timer'[s] = "resetting" /\ state'[s] = state[s]
            /\ (timer[s] = "closing" /\ timer'[s] # "closing")
                  => (timer'[s] = "off" /\ ~(\E k \in DOMAIN connections' :
                                                connections'[k] = s))
            /\ (timer[s] = "resetting" /\ timer'[s] # "resetting")
                  => (timer'[s] = "armed" /\ state'[s] = "ready"
                        /\ connections' = connections)]_vars
    /\ \A s \in Callers : (state[s] = "ready") ~> (Evicted(s) /\ ~Installed(s))

\* C15: under fair scheduling a goroutine that holds pool.mutex eventually
\* releases it, and every request of rpcHandler with a known method
\* eventually gets its response.
C15_LockReleasedRequestAnswered ==
    /\ \A c \in Callers : (mutex = <<"exec", c>>) ~> (mutex # <<"exec", c>>)
    /\ \A s \in Callers : (mutex = <<"timer", s>>) ~> (mutex # <<"timer", s>>)
    /\ \A c \in Callers : (Called(c) /\ Known(c)) ~> (pc[c] = "responded")

\* C14: pool.mutex is not held while a call constructs its connection (so a
\* call for another, installed key can lock, send and return meanwhile).
C14_HandshakeOutsideLock ==
    \A c \in Callers : pc[c] = "handshake" => mutex # <<"exec", c>>

\* C16: Close() is invoked at most once on any connection (no close of a
\* closed channel, by the idle timer or by main) and no action is sent on a
\* connection after Close() (no send on a closed channel).
C16_CloseOnceNoSendAfterClose ==
    /\ \A s \in Callers : timer[s] # "panic"
    /\ main.pc # "panic"
    /\ \A c \in Callers : pc[c] = "panic" => conn[c] = Nil

LoopRunning(s) == lpc[s] \in {"recv", "run"}

\* C17 as stated: every connection in the map has a running loop, and no
\* connection outside the map has one.
C17_LoopIffInstalled ==
    \A s \in Callers : Installed(s) <=> LoopRunning(s)

\* C17, amended: every connection in the map that has not been closed has a
\* running loop, and every connection outside the map whose loop is still
\* running has been closed (so its loop ends once the queue is drained).
C17_LoopIffInstalledUntilClosed ==
    \A s \in Callers :
        /\ Installed(s) /\ state[s] # "closed" => LoopRunning(s)
        /\ LoopRunning(s) /\ ~Installed(s) => state[s] = "closed"

\* a connection is installed with its loop running an action, another has
\* been evicted and its loop has ended
C17_Witness ==
    \E s, t \in Callers :
        /\ Installed(s) /\ lpc[s] = "run"
        /\ ~Installed(t) /\ state[t] = "closed" /\ lpc[t] = "exit"

\* the "checkPerms" action has been through the branch
PermsDone == perm.pc = "done"

\* the payload is a JSON array of strings that check accepts
WellFormed ==
    /\ perm.payload.kind = "array"
    /\ \A i \in DOMAIN perm.payload.elems :
          /\ perm.payload.elems[i][1] = "str"
          /\ ~Check(perm.caps, perm.payload.elems[i][2]).err

\* C18: a "checkPerms" action whose payload is no JSON array of strings, or
\* one of whose entries perms.check fails on, ends with onError and without
\* onResponse.
C18_FailureShortCircuits ==
    PermsDone /\ ~WellFormed /\ perm.payload.kind # "null"
        => perm.out = <<"onError">>

\* C19: a "checkPerms" action whose payload lists n well-formed permission
\* strings ends with onResponse receiving exactly n booleans, the i-th being
\* what perms.check answers for the i-th permission.
C19_ResponseMatchesChecks ==
    PermsDone /\ WellFormed =>
        /\ Len(perm.out) = 2 /\ perm.out[1] = "onResponse"
        /\ Len(perm.out[2]) = Len(perm.payload.elems)
        /\ \A i \in DOMAIN perm.payload.elems :
              /\ perm.out[2][i] \in {"true", "false"}
              /\ perm.out[2][i] = "true"
                    <=> Check(perm.caps, perm.payload.elems[i][2]).allowed

\* a list of two permissions, one allowed and one not, has been answered
C19_Witness ==
    /\ PermsDone /\ WellFormed
    /\ Len(perm.payload.elems) = 2
    /\ perm.out = <<"onResponse", <<"true", "false">> >>

\* C20: when runLoop completes an action whose method is neither "checkPerms"
\* nor in the registry, that step invokes no callback and leaves the loop
\* waiting for the next action of the queue.
C20_UnknownMethodSilent ==
    [][\A s, a \in Callers :
          lpc[s] = "run" /\ a \in inflight[s] /\ a \notin inflight'[s] /\ ~Known(a)
              => /\ nResp' = nResp /\ nErr' = nErr
                 /\ lpc'[s] = "recv"]_vars

\* a connection completed an action with an unknown method without a
\* callback, then received a later action and answered it
C20_Witness ==
    \E s \in Callers :
        /\ Len(deq[s]) >= 2
        /\ ~Known(deq[s][1]) /\ Calls(deq[s][1]) = 0
        /\ Known(deq[s][2]) /\ deq[s][2] \notin inflight[s]
        /\ Calls(deq[s][2]) = 1
====
